---- MODULE Spec2Model ----
(***************************************************************************)
(* Model of three MultiQC source files:                                    *)
(*   multiqc/modules/humid/humid.py       (HUMID stats module)             *)
(*   multiqc/modules/cellranger/count.py  (Cellranger count parser)        *)
(*   multiqc/plots/beeswarm.py            (beeswarm plot helper)           *)
(* A run exercises one of them (variable "module"); the host framework     *)
(* invokes each module once and they share no state.                       *)
(***************************************************************************)
EXTENDS Integers, Sequences, FiniteSets, TLC

VARIABLES
    module,        \* which source file this run exercises
    phase,         \* "parsing" | "done" | "failed"   ("input" | "called" for beeswarm)
    signal,        \* exception that left the module: "none", "UserWarning", "KeyError", ...
    files,         \* the files find_log_files yields, when fixed up front (else <<>>)
    pos,           \* how many of "files" have been handled
    humid,         \* humid.py: self.humid, sample name -> stats record
    cellrangercount_data,          \* count.py: sample name -> full metric record
    cellrangercount_general_data,  \* count.py: sample name -> general-stats record
    cellrangercount_warnings,      \* count.py: sample name -> warning record
    cellrangercount_plots_conf,    \* count.py: plot configuration of the last stored file
    cellrangercount_plots_data,    \* count.py: 'bc' / 'genes' -> sample name -> series
    count_general_data_headers,    \* count.py: header registry, general stats
    count_data_headers,            \* count.py: header registry, full table
    count_warnings_headers,        \* count.py: header registry, warnings table
    data_sources,  \* sample names registered through add_data_source
    hostcalls,     \* host framework calls made after parsing, in order
    logged,        \* messages logged by the last handler
    dt,            \* beeswarm.py: the datatable the plot is made from
    result         \* beeswarm.py: what the called function returned or raised

countAggs == <<cellrangercount_data, cellrangercount_general_data,
               cellrangercount_warnings, cellrangercount_plots_data>>

countVars == <<cellrangercount_data, cellrangercount_general_data,
               cellrangercount_warnings, cellrangercount_plots_conf,
               cellrangercount_plots_data, count_general_data_headers,
               count_data_headers, count_warnings_headers>>

plotVars == <<dt, result>>

vars == <<module, phase, signal, files, pos, humid, countVars,
          data_sources, hostcalls, logged, plotVars>>

(***************************************************************************)
(* Bounds                                                                  *)
(***************************************************************************)
\* integer values that appear in input files are 0..MaxVal
MaxVal == 2

Values == 0..MaxVal

\* sample names (file roots for HUMID, sample ids for Cellranger)
SampleNames == {"s1", "s2"}

(***************************************************************************)
(* Dictionaries: a Python dict is a function on its key set                *)
(***************************************************************************)
EmptyDict == [k \in {} |-> 0]

Put(d, k, v) == [x \in (DOMAIN d) \cup {k} |-> IF x = k THEN v ELSE d[x]]

Restrict(d, keys) == [x \in (DOMAIN d) \cap keys |-> d[x]]

(***************************************************************************)
(* humid.py                                                                *)
(***************************************************************************)
\* decimal text of a natural number, as a sequence of digits
RECURSIVE ToDigits(_)
ToDigits(n) == IF n < 10 THEN <<n>> ELSE Append(ToDigits(n \div 10), n % 10)

\* int(value): the number a digit string denotes
RECURSIVE int(_)
int(digits) ==
    IF Len(digits) = 0 THEN 0
    ELSE 10 * int(SubSeq(digits, 1, Len(digits) - 1)) + digits[Len(digits)]

\* a line "field: value" of a stats file, already split at ": "
StatLine(field, n) == [field |-> field, value |-> ToDigits(n)]

FieldOrders ==
    { <<"total", "usable", "clusters">>, <<"clusters", "usable", "total">> }

\* stats files: the three fields in either order, and the same files with
\* the last line missing
StatFiles ==
    { [i \in 1..3 |-> StatLine(o[i], v[i])] : o \in FieldOrders, v \in [1..3 -> Values] }
    \cup
    { [i \in 1..2 |-> StatLine(o[i], v[i])] : o \in FieldOrders, v \in [1..2 -> Values] }

ValidStatFile(fin) == {fin[i].field : i \in 1..Len(fin)} = {"total", "usable", "clusters"}

\* the loop of parse_stat_file: data[field] = int(value), later lines win
RECURSIVE ReadLines(_, _)
ReadLines(fin, data) ==
    IF Len(fin) = 0 THEN data
    ELSE ReadLines(Tail(fin), Put(data, Head(fin).field, int(Head(fin).value)))

\* stats['filtered'] = stats['total'] - stats['usable'], with the operands swapped
filtered_swapped(stats) == stats["usable"] - stats["total"]

\* stats['filtered'] = stats['total'] - stats['usable']
filtered_of(stats) == stats["total"] - stats["usable"]

\* stats['duplicates'] taken from usable alone, forgetting the clusters
duplicates_from_usable(stats, filtered) == stats["total"] - filtered

\* stats['duplicates'] = stats['total'] - stats['clusters'] - stats['filtered']
duplicates_of(stats, filtered) == stats["total"] - stats["clusters"] - filtered

\* process_stats: the derived values, then the sanity check
process_stats(stats) ==
    IF ~({"total", "usable"} \subseteq DOMAIN stats) THEN [status |-> "KeyError"]
    ELSE LET filtered == filtered_of(stats)
             s1 == Put(stats, "filtered", filtered)
         IN  IF "clusters" \notin DOMAIN s1 THEN [status |-> "KeyError"]
             ELSE LET s2 == Put(s1, "duplicates", duplicates_of(s1, filtered))
                  IN  IF s2["duplicates"] + s2["clusters"] + s2["filtered"] = s2["total"]
                      THEN [status |-> "ok", data |-> s2]
                      ELSE [status |-> "AssertionError"]

parse_stat_file(fin) == process_stats(ReadLines(fin, EmptyDict))

\* a store that adds a second file's numbers to the entry already there
StoreHumidAdding(agg, name, data) ==
    IF name \in DOMAIN agg
    THEN Put(agg, name, [k \in DOMAIN data |-> agg[name][k] + data[k]])
    ELSE Put(agg, name, data)

\* self.humid[name] = data
StoreHumid(agg, name, data) == Put(agg, name, data)

\* what find_log_files("humid") yields: the directory of a stats file and its lines
HumidLogFiles == { [root |-> n, f |-> fin] : n \in SampleNames, fin \in StatFiles }

\* one iteration of the loop in parse_stat_files
HumidStep(f) ==
    \E r \in {parse_stat_file(f.f)}, name \in {f.root} :
        IF r.status = "ok"
        THEN /\ humid' = StoreHumid(humid, name, r.data)
             /\ data_sources' = data_sources \cup {name}
             /\ logged' = <<>>
             /\ UNCHANGED <<phase, signal>>
        ELSE /\ phase' = "failed"
             /\ signal' = r.status
             /\ logged' = <<>>
             /\ UNCHANGED <<humid, data_sources>>

\* the loop body on any file the search may find
ParseStatFile ==
    /\ module = "humid"
    /\ phase = "parsing"
    /\ files = <<>>
    /\ \E f \in HumidLogFiles : HumidStep(f)
    /\ UNCHANGED <<module, files, pos, countVars, hostcalls, plotVars>>

\* the loop body on the next file of a list fixed up front
NextStatFile ==
    /\ module = "humid"
    /\ phase = "parsing"
    /\ pos < Len(files)
    /\ HumidStep(files[pos + 1])
    /\ pos' = pos + 1
    /\ UNCHANGED <<module, files, countVars, hostcalls, plotVars>>

\* BaseMultiqcModule.ignore_samples: drop the samples the configuration excludes
ignore_samples(agg, excluded) == Restrict(agg, (DOMAIN agg) \ excluded)

\* if not self.humid
HumidNoData(agg) == DOMAIN agg = {}

\* MultiqcModule.__init__ after parse_stat_files
HumidFinish ==
    /\ module = "humid"
    /\ phase = "parsing"
    /\ pos = Len(files)
    /\ \E excluded \in SUBSET SampleNames :
          LET kept == ignore_samples(humid, excluded)
          IN  /\ humid' = kept
              /\ IF HumidNoData(kept)
                 THEN /\ signal' = "UserWarning"
                      /\ phase' = "failed"
                      /\ hostcalls' = hostcalls
                      /\ logged' = <<>>
                 ELSE /\ signal' = signal
                      /\ phase' = "done"
                      /\ hostcalls' = hostcalls \o
                            <<"write_data_file", "general_stats_addcols", "add_section">>
                      /\ logged' = <<"Found reports">>
    /\ UNCHANGED <<module, files, pos, countVars, data_sources, plotVars>>

(***************************************************************************)
(* cellranger/count.py                                                     *)
(***************************************************************************)
Has(d, k) == k \in DOMAIN d

Without(d, k) == Restrict(d, (DOMAIN d) \ {k})

\* a dict literal, from its (key, value) pairs
DictOf(pairs) == [k \in {p[1] : p \in pairs} |-> (CHOOSE p \in pairs : p[1] = k)[2]]

\* the three rename tables of parse_count_report
col_dict_cells == DictOf({
    <<"Estimated Number of Cells", "estimated cells">>,
    <<"Mean Reads per Cell", "avg reads/cell">>,
    <<"Fraction Reads in Cells", "reads in cells">> })

col_dict_sequencing == DictOf({
    <<"Number of Reads", "reads">>,
    <<"Valid Barcodes", "valid bc">>,
    <<"Q30 Bases in Barcode", "Q30 bc">>,
    <<"Q30 Bases in UMI", "Q30 UMI">>,
    <<"Q30 Bases in RNA Read", "Q30 read">> })

col_dict_full == DictOf({
    <<"Number of Reads", "reads">>,
    <<"Estimated Number of Cells", "estimated cells">>,
    <<"Mean Reads per Cell", "avg reads/cell">>,
    <<"Total Genes Detected", "genes detected">>,
    <<"Median Genes per Cell", "median genes/cell">>,
    <<"Fraction Reads in Cells", "reads in cells">>,
    <<"Valid Barcodes", "valid bc">>,
    <<"Valid UMIs", "valid umi">>,
    <<"Median UMI Counts per Cell", "median umi/cell">>,
    <<"Sequencing Saturation", "saturation">>,
    <<"Q30 Bases in Barcode", "Q30 bc">>,
    <<"Q30 Bases in UMI", "Q30 UMI">>,
    <<"Q30 Bases in RNA Read", "Q30 read">>,
    <<"Reads Mapped to Genome", "reads mapped">>,
    <<"Reads Mapped Confidently to Genome", "confident reads">>,
    <<"Reads Mapped Confidently to Transcriptome", "confident transcriptome">>,
    <<"Reads Mapped Confidently to Exonic Regions", "confident exonic">>,
    <<"Reads Mapped Confidently to Intronic Regions", "confident intronic">>,
    <<"Reads Mapped Confidently to Intergenic Regions", "confident intergenic">>,
    <<"Reads Mapped Antisense to Gene", "reads antisense">> })

\* utils_functions.update_dict (Metric Dictionary Builder): fills the dict it is
\* given and returns that same dict, so the caller's name for the argument and
\* its name for the result denote one object; rename the rows whose
\* label is in col_dict, parse their values, register the keys seen for the first
\* time with the label as title; other rows are skipped
RECURSIVE update_dict(_, _, _, _, _)
update_dict(table, headers, rows_list, col_dict, prefix) ==
    IF Len(rows_list) = 0 THEN [table |-> table, headers |-> headers]
    ELSE LET label == Head(rows_list)[1]
             value == Head(rows_list)[2]
         IN  IF Has(col_dict, label)
             THEN LET name == prefix \o col_dict[label]
                  IN  update_dict(Put(table, name, int(value)),
                                  IF Has(headers, name) THEN headers
                                  ELSE Put(headers, name, [title |-> label]),
                                  Tail(rows_list), col_dict, prefix)
             ELSE update_dict(table, headers, Tail(rows_list), col_dict, prefix)

\* utils_functions.transform_data (Series Reshaper): x[i] -> y[i]
RECURSIVE ZipSeries(_, _, _)
ZipSeries(x, y, acc) ==
    IF Len(x) = 0 \/ Len(y) = 0 THEN acc
    ELSE ZipSeries(Tail(x), Tail(y), Put(acc, Head(x), Head(y)))

transform_data(series) == ZipSeries(series.x, series.y, EmptyDict)

\* warnings[alarm['id']] = "FAIL" for every alarm of the list
RECURSIVE WarningsOf(_, _)
WarningsOf(alarms_list, warnings) ==
    IF Len(alarms_list) = 0 THEN warnings
    ELSE WarningsOf(Tail(alarms_list), Put(warnings, Head(alarms_list).id, "FAIL"))

\* self.count_warnings_headers[alarm['id']] = {...} for every alarm of the list
RECURSIVE WarningHeadersOf(_, _)
WarningHeadersOf(alarms_list, headers) ==
    IF Len(alarms_list) = 0 THEN headers
    ELSE WarningHeadersOf(Tail(alarms_list),
            Put(headers, Head(alarms_list).id,
                [title |-> Head(alarms_list).id, description |-> Head(alarms_list).title]))

\* help_dict = {x[0]: x[1][0] for x in ...['help']['data']}
RECURSIVE HelpDict(_, _)
HelpDict(data, acc) ==
    IF Len(data) = 0 THEN acc
    ELSE HelpDict(Tail(data), Put(acc, Head(data)[1], Head(data)[2][1]))

\* an exception leaves parse_count_report; the registries keep what was written
Raised(exc, gh, dh, wh) ==
    [status |-> exc, general_headers |-> gh, data_headers |-> dh, warnings_headers |-> wh]

\* the plot section of parse_count_report (lines 189-220), after the warnings
CountPlots(mydict, s_name, general, data, warnings, wh) ==
    LET cells == mydict.summary_tab.cells
        gh == general.headers
        dh == data.headers
    IN  IF ~Has(cells, "help") THEN Raised("KeyError", gh, dh, wh)
        ELSE
        LET help_dict == HelpDict(cells.help.data, EmptyDict)
        IN  IF ~Has(cells, "barcode_knee_plot") THEN Raised("KeyError", gh, dh, wh)
            ELSE IF ~Has(help_dict, "Barcode Rank Plot") THEN Raised("KeyError", gh, dh, wh)
            ELSE IF ~Has(mydict.analysis_tab, "median_gene_plot")
                 THEN Raised("KeyError", gh, dh, wh)
            ELSE
            LET knee == cells.barcode_knee_plot
                genes == mydict.analysis_tab.median_gene_plot
            IN  [status |-> "ok",
                 s_name |-> s_name,
                 data |-> data.table,
                 \* data = update_dict(data_general_stats, ...): the third call
                 \* fills data_general_stats itself, and data is that dict
                 data_general_stats |-> data.table,
                 warnings |-> warnings,
                 plots |->
                    [bc |-> [config |-> [id |-> "mqc_cellranger_count_bc_knee",
                                         title |-> "Cellranger count: " \o knee.layout.title,
                                         xlab |-> knee.layout.xaxis.title,
                                         ylab |-> knee.layout.yaxis.title,
                                         yLog |-> TRUE, xLog |-> TRUE],
                             description |-> "Barcode knee plot",
                             helptext |-> help_dict["Barcode Rank Plot"]],
                     genes |-> [config |-> [id |-> "mqc_cellranger_count_genesXcell",
                                            title |-> "Cellranger count: " \o genes.help.title,
                                            xlab |-> genes.plot.layout.xaxis.title,
                                            ylab |-> genes.plot.layout.yaxis.title,
                                            yLog |-> FALSE, xLog |-> FALSE],
                                description |-> "Median gene counts per cell",
                                helptext |-> genes.help.helpText]],
                 plots_data |-> [bc |-> transform_data(knee.data[1]),
                                 genes |-> transform_data(genes.plot.data[1])],
                 general_headers |-> gh, data_headers |-> dh, warnings_headers |-> wh]

\* parse_count_report up to the store (lines 112-220): what the file yields, and
\* the header registries as the call leaves them
parse_count_report(f, gh, dh, wh) ==
    IF ~f.constdata THEN Raised("UnboundLocalError", gh, dh, wh)
    ELSE
    LET mydict == f.summary
    IN  IF ~Has(mydict, "sample") THEN Raised("KeyError", gh, dh, wh)
        ELSE
        LET s_name == mydict.sample.id
            tabs == mydict.summary_tab
            g1 == update_dict(EmptyDict, gh, tabs.cells.table.rows, col_dict_cells, "COUNT ")
            general == update_dict(g1.table, g1.headers, tabs.sequencing.table.rows,
                                   col_dict_sequencing, "COUNT ")
            data_rows == tabs.sequencing.table.rows \o tabs.cells.table.rows
                            \o tabs.mapping.table.rows
            data == update_dict(general.table, dh, data_rows, col_dict_full, "")
        IN  IF ~Has(mydict, "alarms") THEN Raised("KeyError", general.headers, data.headers, wh)
            ELSE
            LET alarms_list == IF Has(mydict.alarms, "alarms") THEN mydict.alarms.alarms
                               ELSE <<>>
            IN  CountPlots(mydict, s_name, general, data,
                           WarningsOf(alarms_list, EmptyDict),
                           WarningHeadersOf(alarms_list, wh))

\* alarm identifiers a report may carry
AlarmIds == {"a1", "a2"}

Alarm(id) == [id |-> id, title |-> "alarm " \o id]

\* the metric rows of a report: none, only a label no rename table knows, the
\* general-stats rows, or rows of all three tables
RowShapes == {"none", "unknown", "general", "full"}

CellsRows(shape, v) ==
    IF shape \in {"general", "full"}
    THEN << <<"Estimated Number of Cells", ToDigits(v)>> >> ELSE <<>>

SequencingRows(shape, v) ==
    IF shape = "general" THEN << <<"Number of Reads", ToDigits(v + 1)>> >>
    ELSE IF shape = "full"
         THEN << <<"Number of Reads", ToDigits(v + 1)>>,
                 <<"Q30 Bases in Barcode", ToDigits(v)>> >>
         ELSE <<>>

MappingRows(shape, v) ==
    IF shape = "full" THEN << <<"Reads Mapped to Genome", ToDigits(v)>> >>
    ELSE IF shape = "unknown" THEN << <<"Some Other Metric", ToDigits(v)>> >>
         ELSE <<>>

\* the 'summary' object of a complete report
Summary(name, shape, v, alarms) ==
    [sample |-> [id |-> name],
     summary_tab |->
        [cells |->
            [table |-> [rows |-> CellsRows(shape, v)],
             help |-> [data |-> << <<"Barcode Rank Plot", <<"rank plot help">> >> >>],
             barcode_knee_plot |->
                [layout |-> [title |-> "Barcode Rank Plot",
                             xaxis |-> [title |-> "Barcodes"],
                             yaxis |-> [title |-> "UMI counts"]],
                 data |-> << [x |-> <<1, 2>>, y |-> <<v + 1, v>>] >>]],
         sequencing |-> [table |-> [rows |-> SequencingRows(shape, v)]],
         mapping |-> [table |-> [rows |-> MappingRows(shape, v)]]],
     alarms |-> alarms,
     analysis_tab |->
        [median_gene_plot |->
            [help |-> [title |-> "Median Genes per Cell", helpText |-> "genes help"],
             plot |-> [layout |-> [xaxis |-> [title |-> "Mean Reads per Cell"],
                                   yaxis |-> [title |-> "Median Genes per Cell"]],
                       data |-> << [x |-> <<1, 2>>, y |-> <<v, v>>] >>]]]]

\* the 'alarms' object: without the inner key, with an empty list, with one alarm
AlarmObjects ==
    {EmptyDict, [alarms |-> <<>>]} \cup {[alarms |-> <<Alarm(a)>>] : a \in AlarmIds}

\* a report with one sub-section taken out
Lacking(summary, section) ==
    IF section = "sample" THEN Without(summary, "sample")
    ELSE IF section = "help"
    THEN [summary EXCEPT !.summary_tab.cells = Without(@, "help")]
    ELSE IF section = "barcode_knee_plot"
    THEN [summary EXCEPT !.summary_tab.cells = Without(@, "barcode_knee_plot")]
    ELSE IF section = "median_gene_plot"
    THEN [summary EXCEPT !.analysis_tab = Without(@, "median_gene_plot")]
    ELSE summary

OptionalSections == {"help", "barcode_knee_plot", "median_gene_plot"}

\* what find_log_files("cellranger/count_html") yields: complete reports, reports
\* lacking one sub-section or the sample identifier, and a file with no data line
CountLogFiles ==
    { [fn |-> "web_summary.html", constdata |-> TRUE, summary |-> Summary(n, sh, v, al)] :
        n \in SampleNames, sh \in RowShapes, v \in Values, al \in AlarmObjects }
    \cup
    { [fn |-> "web_summary.html", constdata |-> TRUE,
       summary |-> Lacking(Summary(n, "full", 1, al), sec)] :
        n \in SampleNames, al \in AlarmObjects, sec \in OptionalSections \cup {"sample"} }
    \cup
    { [fn |-> "web_summary.html", constdata |-> FALSE, summary |-> EmptyDict] }

\* if len(warnings) > 0: self.cellrangercount_warnings[s_name] = warnings
StoreWarnings(agg, s_name, warnings) ==
    IF Cardinality(DOMAIN warnings) > 0 THEN Put(agg, s_name, warnings) ELSE agg

\* a store of the plot series that keeps the entry a sample already has
StorePlotsKeepFirst(agg, s_name, plots_data) ==
    [bc |-> IF Has(agg.bc, s_name) THEN agg.bc ELSE Put(agg.bc, s_name, plots_data.bc),
     genes |-> IF Has(agg.genes, s_name) THEN agg.genes
               ELSE Put(agg.genes, s_name, plots_data.genes)]

\* self.cellrangercount_plots_data[k][s_name] = plots_data[k] for both k
StorePlots(agg, s_name, plots_data) ==
    [bc |-> Put(agg.bc, s_name, plots_data.bc),
     genes |-> Put(agg.genes, s_name, plots_data.genes)]

\* the duplicate-name notice of parse_count_report
DuplicateNotice(agg, s_name) ==
    IF Has(agg, s_name) THEN <<"Duplicate sample name found! Overwriting">> ELSE <<>>

\* parse_count_report on one file
CountStep(f) ==
    \E r \in {parse_count_report(f, count_general_data_headers, count_data_headers,
                                count_warnings_headers)} :
        /\ count_general_data_headers' = r.general_headers
        /\ count_data_headers' = r.data_headers
        /\ count_warnings_headers' = r.warnings_headers
        /\ IF r.status # "ok"
           THEN /\ phase' = "failed"
                /\ signal' = r.status
                /\ logged' = <<>>
                /\ UNCHANGED <<countAggs, cellrangercount_plots_conf, data_sources>>
           ELSE IF Cardinality(DOMAIN r.data) > 0
           THEN /\ logged' = DuplicateNotice(cellrangercount_general_data, r.s_name)
                /\ data_sources' = data_sources \cup {r.s_name}
                /\ cellrangercount_data' = Put(cellrangercount_data, r.s_name, r.data)
                /\ cellrangercount_general_data' =
                      Put(cellrangercount_general_data, r.s_name, r.data_general_stats)
                /\ cellrangercount_warnings' =
                      StoreWarnings(cellrangercount_warnings, r.s_name, r.warnings)
                /\ cellrangercount_plots_conf' = r.plots
                /\ cellrangercount_plots_data' =
                      StorePlots(cellrangercount_plots_data, r.s_name, r.plots_data)
                /\ UNCHANGED <<phase, signal>>
           ELSE /\ logged' = <<>>
                /\ UNCHANGED <<phase, signal, countAggs, cellrangercount_plots_conf,
                               data_sources>>

\* the loop body of parse_count_html on any file the search may find
ParseCountReport ==
    /\ module = "cellranger"
    /\ phase = "parsing"
    /\ files = <<>>
    /\ \E f \in CountLogFiles : CountStep(f)
    /\ UNCHANGED <<module, files, pos, humid, hostcalls, plotVars>>

\* the loop body on the next file of a list fixed up front
NextCountReport ==
    /\ module = "cellranger"
    /\ phase = "parsing"
    /\ pos < Len(files)
    /\ CountStep(files[pos + 1])
    /\ pos' = pos + 1
    /\ UNCHANGED <<module, files, humid, hostcalls, plotVars>>

\* utils_functions.set_hidden_cols: headers[col]['hidden'] = True where col is registered
set_hidden_cols(headers, cols) ==
    [k \in DOMAIN headers |->
        IF k \in cols THEN Put(headers[k], "hidden", TRUE) ELSE headers[k]]

ReadsHeader(title) ==
    [title |-> title, description |-> "Number of reads", modify |-> "read_count_multiplier"]

GeneralHidden == {"COUNT Q30 bc", "COUNT Q30 UMI", "COUNT Q30 read"}

DataHidden == {"Q30 bc", "Q30 UMI", "Q30 read", "confident transcriptome",
               "confident intronic", "confident intergenic", "reads antisense",
               "saturation"}

\* the add_section calls of parse_count_html
CountSections(warnings) ==
    (IF Cardinality(DOMAIN warnings) > 0 THEN <<"add_section warnings">> ELSE <<>>)
    \o <<"add_section stats", "add_section bcrank", "add_section genes">>

\* the no-data check left out
CountNoDataUnchecked(agg) == FALSE

\* if len(self.cellrangercount_data) == 0
CountNoData(agg) == Cardinality(DOMAIN agg) = 0

\* parse_count_html after its loop (lines 31-107)
CountFinish ==
    /\ module = "cellranger"
    /\ phase = "parsing"
    /\ pos = Len(files)
    /\ \E excluded \in SUBSET SampleNames :
          LET data == ignore_samples(cellrangercount_data, excluded)
              warnings == ignore_samples(cellrangercount_warnings, excluded)
          IN  /\ cellrangercount_data' = data
              /\ cellrangercount_general_data' =
                    ignore_samples(cellrangercount_general_data, excluded)
              /\ cellrangercount_warnings' = warnings
              /\ cellrangercount_plots_data' =
                    [k \in DOMAIN cellrangercount_plots_data |->
                        ignore_samples(cellrangercount_plots_data[k], excluded)]
              /\ count_general_data_headers' =
                    set_hidden_cols(Put(count_general_data_headers, "COUNT reads",
                                        ReadsHeader("COUNT Reads")), GeneralHidden)
              /\ count_data_headers' =
                    set_hidden_cols(Put(count_data_headers, "reads", ReadsHeader("Reads")),
                                    DataHidden)
              /\ IF CountNoData(data)
                 THEN /\ signal' = "UserWarning"
                      /\ phase' = "failed"
                      /\ hostcalls' = hostcalls
                 ELSE IF ~Has(cellrangercount_plots_conf.bc, "description")
                 THEN /\ signal' = "KeyError"
                      /\ phase' = "failed"
                      /\ hostcalls' = hostcalls \o
                            <<"general_stats_addcols", "write_data_file">>
                            \o SubSeq(CountSections(warnings), 1,
                                      Len(CountSections(warnings)) - 2)
                 ELSE /\ signal' = signal
                      /\ phase' = "done"
                      /\ hostcalls' = hostcalls \o
                            <<"general_stats_addcols", "write_data_file">>
                            \o CountSections(warnings)
    /\ logged' = <<>>
    /\ UNCHANGED <<module, files, pos, humid, cellrangercount_plots_conf,
                   count_warnings_headers, data_sources, plotVars>>

(***************************************************************************)
(* plots/beeswarm.py                                                       *)
(***************************************************************************)
Keys == {"k1", "k2"}

\* a column header as the datatable holds it; the optional fields come with the
\* 'modify' hook: absent, a callable (lambda x: x * factor), or a value that is
\* not callable
HeaderKinds == {"plain", "callable", "notcallable"}

Header(k, kind) ==
    LET base == [rid |-> "rid_" \o k, namespace |-> "ns", title |-> "title " \o k,
                 description |-> "about " \o k, dmax |-> MaxVal, dmin |-> 0]
    IN  IF kind = "callable"
        THEN Put(Put(Put(Put(base, "modify", [callable |-> TRUE, factor |-> 2]),
                         "colour", "55,126,184"), "suffix", "%"), "decimalPlaces", "0")
        ELSE IF kind = "notcallable"
        THEN Put(base, "modify", [callable |-> FALSE])
        ELSE base

\* hs.items() of one data set: (key, header) pairs in order, keys distinct
HeaderLists ==
    {<<>>}
    \cup { << <<k, Header(k, kind)>> >> : k \in Keys, kind \in HeaderKinds }
    \cup { << <<ks[1], Header(ks[1], kd[1])>>, <<ks[2], Header(ks[2], kd[2])>> >> :
             ks \in {x \in [1..2 -> Keys] : x[1] # x[2]}, kd \in [1..2 -> HeaderKinds] }

\* a sample's record: a value for some of the keys
SampleRecords == UNION { [S -> 1..MaxVal] : S \in SUBSET Keys }

\* dt.data[idx].items(): (sample name, record) pairs in order, names distinct
DataLists ==
    {<<>>}
    \cup { << <<s, r>> >> : s \in SampleNames, r \in SampleRecords }
    \cup { << <<ss[1], rs[1]>>, <<ss[2], rs[2]>> >> :
             ss \in {x \in [1..2 -> SampleNames] : x[1] # x[2]},
             rs \in [1..2 -> SampleRecords] }

\* a further data set placed before or after the first
ExtraTables ==
    { [hs |-> << <<"k2", Header("k2", "callable")>>, <<"k1", Header("k1", "plain")>> >>,
       data |-> << <<"s2", [k2 |-> 1]>>, <<"s1", [k1 |-> MaxVal, k2 |-> 1]>> >>],
      [hs |-> <<>>, data |-> << <<"s1", [k1 |-> 1]>> >>] }

\* table_object.datatable: the object holding the list of data dicts and the list
\* of header dicts
datatable(data, headers, pconfig) == [headers |-> headers, data |-> data]

\* the data sets of a datatable: one alone, or with a further one on either side
TableLists(t) ==
    {<<t>>} \cup { <<t, e>> : e \in ExtraTables } \cup { <<e, t>> : e \in ExtraTables }

\* the entry appended to categories for one header
Category(header) ==
    [namespace |-> header.namespace,
     title |-> header.title,
     description |-> header.description,
     max |-> header.dmax,
     min |-> header.dmin,
     suffix |-> IF Has(header, "suffix") THEN header.suffix ELSE "",
     decimalPlaces |-> IF Has(header, "decimalPlaces") THEN header.decimalPlaces ELSE "2",
     bordercol |-> "rgb(" \o (IF Has(header, "colour") THEN header.colour
                              ELSE "204,204,204") \o ")"]

\* val = samp[k], passed through header['modify'] when present and callable
ColumnValue(header, val) ==
    IF Has(header, "modify") /\ header.modify.callable
    THEN val * header.modify.factor
    ELSE val

\* the inner loop with the sample name appended outside the "if k in samp"
RECURSIVE ColumnLoopAllNames(_, _, _, _, _)
ColumnLoopAllNames(items, k, header, thisdata, these_snames) ==
    IF Len(items) = 0 THEN [thisdata |-> thisdata, these_snames |-> these_snames]
    ELSE LET s_name == Head(items)[1]
             samp == Head(items)[2]
         IN  ColumnLoopAllNames(Tail(items), k, header,
                IF Has(samp, k) THEN Append(thisdata, ColumnValue(header, samp[k]))
                ELSE thisdata,
                Append(these_snames, s_name))

\* the inner loop of make_plot over dt.data[idx].items()
RECURSIVE ColumnLoop(_, _, _, _, _)
ColumnLoop(items, k, header, thisdata, these_snames) ==
    IF Len(items) = 0 THEN [thisdata |-> thisdata, these_snames |-> these_snames]
    ELSE LET s_name == Head(items)[1]
             samp == Head(items)[2]
         IN  IF Has(samp, k)
             THEN ColumnLoop(Tail(items), k, header,
                             Append(thisdata, ColumnValue(header, samp[k])),
                             Append(these_snames, s_name))
             ELSE ColumnLoop(Tail(items), k, header, thisdata, these_snames)

\* the loop of make_plot over hs.items() for one data set
RECURSIVE HeaderLoop(_, _, _)
HeaderLoop(hs, items, acc) ==
    IF Len(hs) = 0 THEN acc
    ELSE LET k == Head(hs)[1]
             header == Head(hs)[2]
             col == ColumnLoop(items, k, header, <<>>, <<>>)
         IN  HeaderLoop(Tail(hs), items,
                        [categories |-> Append(acc.categories, Category(header)),
                         data |-> Append(acc.data, col.thisdata),
                         s_names |-> Append(acc.s_names, col.these_snames)])

\* the loop of make_plot over enumerate(dt.headers)
RECURSIVE TableLoop(_, _, _)
TableLoop(d, idx, acc) ==
    IF idx > Len(d.headers) THEN acc
    ELSE TableLoop(d, idx + 1, HeaderLoop(d.headers[idx], d.data[idx], acc))

\* make_plot: the three arrays, written into the plot's html
make_plot(d) ==
    LET arrays == TableLoop(d, 1, [categories |-> <<>>, data |-> <<>>, s_names |-> <<>>])
    IN  [plot_type |-> "beeswarm",
         samples |-> arrays.s_names,
         datasets |-> arrays.data,
         categories |-> arrays.categories]

\* the names bound at module level in beeswarm.py
ModuleGlobals == {"json", "logging", "os", "random", "config", "table_object",
                  "logger", "letters", "plot", "make_plot"}

\* a call of a module-level name with the datatable as argument
CallGlobal(name, d) ==
    IF name \notin ModuleGlobals THEN [status |-> "NameError"]
    ELSE IF name = "make_plot" THEN [status |-> "ok", html |-> make_plot(d)]
    ELSE [status |-> "TypeError"]

\* plot: make the datatable, return make_beeswarm_plot(dt)
plot(data, headers, pconfig) ==
    CallGlobal("make_beeswarm_plot", datatable(data, headers, pconfig))

\* a caller runs beeswarm.plot
BeeswarmPlot ==
    /\ module = "beeswarm"
    /\ phase = "input"
    /\ \E r \in {plot(dt.data, dt.headers, EmptyDict)} :
          /\ result' = r
          /\ signal' = IF r.status = "ok" THEN "none" ELSE r.status
    /\ phase' = "plot"
    /\ UNCHANGED <<module, files, pos, humid, countVars, data_sources, hostcalls,
                   logged, dt>>

\* a caller runs beeswarm.make_plot on the datatable
BeeswarmMakePlot ==
    /\ module = "beeswarm"
    /\ phase = "input"
    /\ result' = [status |-> "ok", html |-> make_plot(dt)]
    /\ phase' = "make_plot"
    /\ UNCHANGED <<module, signal, files, pos, humid, countVars, data_sources,
                   hostcalls, logged, dt>>

(***************************************************************************)
(* Specifications                                                          *)
(***************************************************************************)
InitState ==
    /\ signal = "none"
    /\ humid = EmptyDict
    /\ cellrangercount_data = EmptyDict
    /\ cellrangercount_general_data = EmptyDict
    /\ cellrangercount_warnings = EmptyDict
    /\ cellrangercount_plots_conf = [bc |-> EmptyDict, genes |-> EmptyDict]
    /\ cellrangercount_plots_data = [bc |-> EmptyDict, genes |-> EmptyDict]
    /\ count_general_data_headers = EmptyDict
    /\ count_data_headers = EmptyDict
    /\ count_warnings_headers = EmptyDict
    /\ data_sources = {}
    /\ hostcalls = <<>>
    /\ logged = <<>>
    /\ result = EmptyDict

NoTable == [headers |-> <<>>, data |-> <<>>]

\* a module run over any number of files, in any order
Init ==
    /\ module \in {"humid", "cellranger"}
    /\ phase = "parsing"
    /\ files = <<>>
    /\ pos = 0
    /\ dt = NoTable
    /\ InitState

Next ==
    \/ ParseStatFile
    \/ HumidFinish
    \/ ParseCountReport
    \/ CountFinish

Spec == Init /\ [][Next]_vars

\* a module run over a list of files fixed up front: any two files, the second
\* of them found a second time
LogFilesOf(m) == IF m = "humid" THEN HumidLogFiles ELSE CountLogFiles

InitFiles ==
    /\ module \in {"humid", "cellranger"}
    /\ phase = "parsing"
    /\ files \in { <<g, f, f>> : g \in LogFilesOf(module), f \in LogFilesOf(module) }
    /\ pos = 0
    /\ dt = NoTable
    /\ InitState

NextFiles ==
    \/ NextStatFile
    \/ NextCountReport

SpecFiles == InitFiles /\ [][NextFiles]_vars

\* the beeswarm functions applied to a datatable
InitBeeswarm ==
    /\ module = "beeswarm"
    /\ phase = "input"
    /\ files = <<>>
    /\ pos = 0
    /\ \E h \in HeaderLists, d \in DataLists :
          \E tables \in TableLists([hs |-> h, data |-> d]) :
             dt = [headers |-> [i \in 1..Len(tables) |-> tables[i].hs],
                   data |-> [i \in 1..Len(tables) |-> tables[i].data]]
    /\ InitState

NextBeeswarm ==
    \/ BeeswarmPlot
    \/ BeeswarmMakePlot

SpecBeeswarm == InitBeeswarm /\ [][NextBeeswarm]_vars

(***************************************************************************)
(* Properties                                                              *)
(***************************************************************************)
Max(S) == CHOOSE x \in S : \A y \in S : y <= x

\* the file handled last, in a run over a fixed list
LastFile == files[pos]

\* the number a stats file gives for a field
FieldValue(fin, field) ==
    CHOOSE n \in Values : \E i \in 1..Len(fin) : fin[i] = StatLine(field, n)

\* C1: every record parsed from a stats file with total, usable and clusters
\* satisfies total = clusters + duplicates + filtered; parsing such a file
\* returns, and the sanity check of process_stats is never the one to fail
C1_SumOfParts ==
    module = "humid" =>
        /\ signal # "AssertionError"
        /\ \A n \in DOMAIN humid :
              humid[n]["total"] =
                 humid[n]["clusters"] + humid[n]["duplicates"] + humid[n]["filtered"]
        /\ (pos >= 1 /\ ValidStatFile(LastFile.f)) =>
              (phase = "parsing" /\ LastFile.root \in DOMAIN humid)

C1_Witness ==
    /\ module = "humid"
    /\ pos >= 1
    /\ ValidStatFile(LastFile.f)
    /\ LastFile.root \in DOMAIN humid
    /\ humid[LastFile.root]["clusters"] > 0
    /\ humid[LastFile.root]["duplicates"] > 0

\* C2: the record parsed from a stats file with total, usable and clusters has
\* filtered = total - usable and duplicates = usable - clusters, and its total,
\* usable and clusters are the numbers of the file
C2_DerivedValues ==
    (module = "humid" /\ pos >= 1 /\ ValidStatFile(LastFile.f)) =>
        /\ LastFile.root \in DOMAIN humid
        /\ LET rec == humid[LastFile.root]
               total == FieldValue(LastFile.f, "total")
               usable == FieldValue(LastFile.f, "usable")
               clusters == FieldValue(LastFile.f, "clusters")
           IN  /\ rec["total"] = total
               /\ rec["usable"] = usable
               /\ rec["clusters"] = clusters
               /\ rec["filtered"] = total - usable
               /\ rec["duplicates"] = usable - clusters

\* total: 2, usable: 1, clusters: 0 gives filtered = 1 and duplicates = 1
C2_Witness ==
    /\ module = "humid"
    /\ pos >= 1
    /\ ValidStatFile(LastFile.f)
    /\ LastFile.root \in DOMAIN humid
    /\ FieldValue(LastFile.f, "total") = 2
    /\ FieldValue(LastFile.f, "usable") = 1
    /\ FieldValue(LastFile.f, "clusters") = 0
    /\ humid[LastFile.root]["filtered"] = 1
    /\ humid[LastFile.root]["duplicates"] = 1

\* the samples a module is left with
Remaining == IF module = "humid" THEN DOMAIN humid ELSE DOMAIN cellrangercount_data

\* C3: in both modules, when no sample remains after the files are parsed and the
\* exclusion filter is applied, the module raises UserWarning and has made no
\* general-stats, data-file or section call; a module that completes, or that has
\* made such a call, has a sample left
C3_NoDataSignal ==
    /\ phase = "done" => Remaining # {}
    /\ hostcalls # <<>> => Remaining # {}
    /\ signal = "UserWarning" => (Remaining = {} /\ hostcalls = <<>>)

\* every sample parsed by the Cellranger parser was excluded
C3_Witness ==
    /\ module = "cellranger"
    /\ signal = "UserWarning"
    /\ data_sources # {}
    /\ hostcalls = <<>>

\* what a file yields on its own: the outcome of the parse with empty registries
Yield(f) ==
    IF module = "humid" THEN parse_stat_file(f.f)
    ELSE parse_count_report(f, EmptyDict, EmptyDict, EmptyDict)

\* the file has a sample name, and which
Named(f) == module = "humid" \/ (f.constdata /\ Has(f.summary, "sample"))

NameOf(f) == IF module = "humid" THEN f.root ELSE f.summary.sample.id

\* the handled files with sample name n
Produced(n) == { i \in 1..pos : Named(files[i]) /\ NameOf(files[i]) = n }

\* the parse of the file stores a record: it returns, with at least one metric
Stores(f) == Yield(f).status = "ok" /\ DOMAIN Yield(f).data # {}

\* the handled files with sample name n whose record was stored
Stored(n) == { i \in Produced(n) : Stores(files[i]) }

\* the four per-sample aggregates of the Cellranger parser have the same samples
KeysAgree ==
    /\ DOMAIN cellrangercount_general_data = DOMAIN cellrangercount_data
    /\ DOMAIN cellrangercount_plots_data.bc = DOMAIN cellrangercount_data
    /\ DOMAIN cellrangercount_plots_data.genes = DOMAIN cellrangercount_data

\* the entry of sample n in every aggregate is the record of file f
EntryIs(n, f) ==
    IF module = "humid" THEN n \in DOMAIN humid /\ humid[n] = Yield(f).data
    ELSE /\ n \in DOMAIN cellrangercount_data
         /\ cellrangercount_data[n] = Yield(f).data
         /\ cellrangercount_general_data[n] = Yield(f).data_general_stats
         /\ cellrangercount_plots_data.bc[n] = Yield(f).plots_data.bc
         /\ cellrangercount_plots_data.genes[n] = Yield(f).plots_data.genes

\* C4 as stated: when two handled files have the same sample name, the entry of
\* that name is the record of the later one
C4_LaterFileWins ==
    phase = "parsing" =>
        /\ KeysAgree
        /\ \A n \in Remaining :
              Cardinality(Produced(n)) >= 2 => EntryIs(n, files[Max(Produced(n))])

\* C4 amended: the aggregates have the same samples, a sample has an entry exactly
\* when a handled file of that name stored a record, and the entry is the record
\* of the latest such file; a file without any known metric stores nothing and
\* leaves the earlier entry in place
C4_LatestStoredFileWins ==
    /\ KeysAgree
    /\ \A n \in SampleNames :
          /\ n \in Remaining <=> Stored(n) # {}
          /\ Stored(n) # {} => EntryIs(n, files[Max(Stored(n))])

\* two Cellranger reports of one sample with different metrics, both stored
C4_Witness ==
    /\ module = "cellranger"
    /\ pos = 2
    /\ \E n \in SampleNames :
          /\ Stored(n) = {1, 2}
          /\ Yield(files[1]).data # Yield(files[2]).data
          /\ Yield(files[1]).plots_data # Yield(files[2]).plots_data
          /\ EntryIs(n, files[2])

\* C5: whenever a file's record overwrites the entry an earlier file stored under
\* the same sample name, the handler logs a notice and the module goes on
C5_OverwriteLogged ==
    (pos >= 2 /\ Named(LastFile) /\ Stores(LastFile)
        /\ \E i \in Stored(NameOf(LastFile)) : i < pos) =>
            (phase = "parsing" /\ logged # <<>>)

\* C6: a report that has its sample identifier does not make parse_count_report
\* raise, whatever optional sub-section it lacks, and its metrics are stored
C6_OptionalSectionsDegrade ==
    (module = "cellranger" /\ pos >= 1 /\ Named(LastFile)) =>
        /\ phase = "parsing"
        /\ signal = "none"
        /\ LastFile.summary.summary_tab.cells.table.rows # <<>> =>
              NameOf(LastFile) \in DOMAIN cellrangercount_data

\* C7: parsing the file that was parsed last once more changes no per-sample
\* aggregate of either module and does not fail
C7_ReparseIdempotent ==
    [][ (pos = 2 /\ pos' = 3) =>
            /\ files[3] = files[2]
            /\ humid' = humid
            /\ countAggs' = countAggs
            /\ cellrangercount_plots_conf' = cellrangercount_plots_conf
            /\ phase' = phase ]_vars

\* a Cellranger report with alarms, stored over another file's entry, parsed twice
C7_Witness ==
    /\ module = "cellranger"
    /\ pos = 3
    /\ phase = "parsing"
    /\ Stored(NameOf(files[3])) = {1, 2, 3}
    /\ Yield(files[1]).data # Yield(files[3]).data
    /\ NameOf(files[3]) \in DOMAIN cellrangercount_warnings

\* C8: beeswarm.plot returns the html make_plot produces for the datatable
C8_PlotReturnsHtml ==
    (module = "beeswarm" /\ phase = "plot") =>
        (result.status = "ok"
            /\ result.html = make_plot(datatable(dt.data, dt.headers, EmptyDict)))

\* the number of header columns of the data sets before data set idx
RECURSIVE Offset(_)
Offset(idx) == IF idx <= 1 THEN 0 ELSE Offset(idx - 1) + Len(dt.headers[idx - 1])

\* the (sample, record) pairs of data set idx whose record has key k, in order
Having(idx, k) == SelectSeq(dt.data[idx], LAMBDA e : k \in DOMAIN e[2])

\* C9: categories, datasets and samples have one element per header column, in
\* header order; column i lists the samples of its data set that have the key, in
\* record order, with their values, passed through a callable 'modify' only
C9_ParallelArrays ==
    (module = "beeswarm" /\ phase = "make_plot") =>
        LET html == result.html
            n == Offset(Len(dt.headers) + 1)
        IN  /\ Len(html.categories) = n
            /\ Len(html.datasets) = n
            /\ Len(html.samples) = n
            /\ \A idx \in 1..Len(dt.headers) : \A j \in 1..Len(dt.headers[idx]) :
                  LET i == Offset(idx) + j
                      k == dt.headers[idx][j][1]
                      header == dt.headers[idx][j][2]
                      rows == Having(idx, k)
                      hooked == "modify" \in DOMAIN header /\ header.modify.callable
                  IN  /\ html.categories[i].title = header.title
                      /\ html.categories[i].namespace = header.namespace
                      /\ html.samples[i] = [m \in 1..Len(rows) |-> rows[m][1]]
                      /\ html.datasets[i] =
                            [m \in 1..Len(rows) |->
                                IF hooked THEN rows[m][2][k] * header.modify.factor
                                ELSE rows[m][2][k]]

\* two data sets; a column with a callable hook over two samples, one column with
\* a hook that is not callable, and a sample lacking a column's key
C9_Witness ==
    /\ module = "beeswarm"
    /\ phase = "make_plot"
    /\ Len(dt.headers) = 2
    /\ Len(result.html.samples) = 4
    /\ \E i \in 1..4 : Len(result.html.samples[i]) = 1
    /\ \E i \in 1..4 : Len(result.html.samples[i]) = 2
    /\ \E idx \in 1..2 : \E j \in 1..Len(dt.headers[idx]) :
          LET header == dt.headers[idx][j][2]
          IN  "modify" \in DOMAIN header /\ ~header.modify.callable
                 /\ Len(Having(idx, dt.headers[idx][j][1])) > 0

\* C10: a sample has a warning entry exactly when the file whose record is stored
\* for it reported an alarm, and the entry holds that file's alarm identifiers
C10_WarningsFollowStoredFile ==
    (module = "cellranger" /\ phase = "parsing") =>
        \A n \in SampleNames :
            Stored(n) # {} =>
                LET w == Yield(files[Max(Stored(n))]).warnings
                IN  /\ n \in DOMAIN cellrangercount_warnings <=> DOMAIN w # {}
                    /\ n \in DOMAIN cellrangercount_warnings =>
                          cellrangercount_warnings[n] = w
====
